---- MODULE Spec2Model ----
(***************************************************************************)
(* Model of the Elliot Skyfall weather broadcast generator.                *)
(*                                                                         *)
(*   Spec       the generate command (cli/commands/generate.ts): a         *)
(*              sequence of generateCommand runs by one operator over the  *)
(*              episodes table, the weather snapshot table and the output  *)
(*              directories.  Each action is one await-delimited step.     *)
(*   SpecRace   the same steps, taken by two processes that each run the   *)
(*              command once, in every interleaving.                       *)
(*   SpecFetch  fetchWeatherData (weather/fetcher.ts) stepped attempt by   *)
(*              attempt, with the snapshot store and the clock.            *)
(***************************************************************************)
EXTENDS Integers, Sequences, FiniteSets, TLC

\* ------------------------------------------------------------------ bounds
MaxRuns == 4
MaxCues == 2
MaxTime == 11
MaxFetchCalls == 3

\* ------------------------------------------------------- program constants
EpisodeStartNumber == 1
MAX_RETRIES == 3
RETRY_DELAY_MS == 1000
TicksPerHour == 2
MaxImageCalls == 3
DefaultStyleVersion == 1
MaxTimelineCues == 4
MaxAudioUnits == 108
AudioDen == 4
DEFAULT_FPS == 30
DefaultCueDuration == 5
MaxElapse == 1

\* ------------------------------------------------------------- value sets
Procs == {"A", "B"}
Dates == {"d1", "d2", "d3"}
PipelineDates == {"d1"}
Stages == <<"init", "fetching", "generating", "synthesizing", "syncing", "composing", "done">>
Null == [kind |-> "null", cues |-> 0]
EmptyText == [kind |-> "empty", cues |-> 0]
Scripts == {[kind |-> "text", cues |-> n] : n \in 0..MaxCues}
Payloads == {"wx"}
NoFile == "null"

VARIABLES episodes, snapshots, imgFiles, run, runs, now, fetch,
          imageCache, img, timeline

vars == <<episodes, snapshots, imgFiles, run, runs, now, fetch,
          imageCache, img, timeline>>

\* ------------------------------------------------------------ pure helpers
\* JavaScript truthiness of a script column value: null and '' are falsy.
Falsy(script) == script.kind \in {"null", "empty"}

parseGraphicCues(script) == IF script.kind = "text" THEN script.cues ELSE 0

StageIndex(s) == CHOOSE i \in 1..Len(Stages) : Stages[i] = s

Min(S) == CHOOSE x \in S : \A y \in S : x <= y
Max(S) == CHOOSE x \in S : \A y \in S : x >= y

\* Math.round(n / d) for n >= 0, d > 0: halves round up.
MathRound(n, d) == (2 * n + d) \div (2 * d)

\* ------------------------------------------------------------ the tables
RowsFor(d) == {i \in DOMAIN episodes : episodes[i].broadcastDate = d}

RowById(id) == CHOOSE i \in DOMAIN episodes : episodes[i].id = id

\* db.select().from(episodes).where(eq(broadcastDate, d)).limit(1)
selectByDate(d) == IF RowsFor(d) = {} THEN 0 ELSE Min(RowsFor(d))

\* db.select().from(episodes).orderBy(episodes.episodeNumber).limit(1)
selectLastEpisode ==
  IF episodes = <<>> THEN 0
  ELSE CHOOSE i \in DOMAIN episodes :
         \A j \in DOMAIN episodes :
            \/ episodes[i].episodeNumber < episodes[j].episodeNumber
            \/ episodes[i].episodeNumber = episodes[j].episodeNumber /\ i <= j

nextEpisodeNumber ==
  IF selectLastEpisode # 0
    THEN episodes[selectLastEpisode].episodeNumber + 1
    ELSE EpisodeStartNumber

\* the episodes table without the UNIQUE constraint
UniqueViolation_Unchecked(d) == FALSE

\* UNIQUE constraint on episodes.broadcast_date
UniqueViolation(d) == RowsFor(d) # {}

NewEpisode(d, n) ==
  [id |-> Len(episodes) + 1, broadcastDate |-> d, episodeNumber |-> n,
   status |-> "init", script |-> Null, audioPath |-> NoFile,
   durationSecs |-> NoFile, videoPath |-> NoFile, error |-> "null",
   completedAt |-> FALSE, updatedAt |-> now]

\* db.update(episodes).set(fields).where(eq(id, episodeId))
setFields(id, f) ==
  [i \in DOMAIN episodes |->
     IF episodes[i].id = id
       THEN [k \in DOMAIN episodes[i] |->
               IF k \in DOMAIN f THEN f[k] ELSE episodes[i][k]]
       ELSE episodes[i]]

\* a status write that leaves updated_at as it was
updateEpisodeStatus_StaleTimestamp(id, status) ==
  setFields(id, IF status = "done"
                  THEN [status |-> status, completedAt |-> TRUE]
                  ELSE [status |-> status])

updateEpisodeStatus(id, status) ==
  setFields(id, IF status = "done"
                  THEN [status |-> status, updatedAt |-> now, completedAt |-> TRUE]
                  ELSE [status |-> status, updatedAt |-> now])

\* ----------------------------------------------------- weather snapshots
\* JSON.stringify(data) followed by JSON.parse: the four defined fields of a
\* fresh WeatherData survive, an undefined staleAge is dropped.
FreshData(w, t) == [payload |-> w, fetchedAt |-> t, isStale |-> FALSE]

\* a snapshot write whose error escapes into the retry loop
snapshotWrite_Propagates(ok) == IF ok THEN "saved" ELSE "threw"

\* saveWeatherSnapshot's try/catch: a failed insert is logged and dropped.
snapshotWrite(ok) == IF ok THEN "saved" ELSE "swallowed"

\* a write that keeps only the snapshot it stores
saveWeatherSnapshot_Replace(snaps, data, epId, ok) ==
  IF ok
    THEN <<[episodeId |-> epId, parsedData |-> data, fetchedAt |-> data.fetchedAt]>>
    ELSE snaps

saveWeatherSnapshot(snaps, data, epId, ok) ==
  IF ok
    THEN Append(snaps, [episodeId |-> epId, parsedData |-> data,
                        fetchedAt |-> data.fetchedAt])
    ELSE snaps

\* the oldest snapshot instead of the newest (ascending order)
FallbackRows_Oldest(snaps) ==
  {i \in DOMAIN snaps : \A j \in DOMAIN snaps : snaps[i].fetchedAt <= snaps[j].fetchedAt}

\* rows that ORDER BY fetched_at DESC LIMIT 1 may return
FallbackRows(snaps) ==
  {i \in DOMAIN snaps : \A j \in DOMAIN snaps : snaps[i].fetchedAt >= snaps[j].fetchedAt}

\* a store read that lets its error escape
fallbackLookup_Uncaught(snaps, readOK) ==
  IF ~readOK THEN "threw"
  ELSE IF FallbackRows(snaps) = {} THEN "null"
  ELSE "found"

\* getFallbackData: what the lookup of the newest snapshot comes to.  An
\* error of the store read or of JSON.parse is caught and gives null.
fallbackLookup(snaps, readOK) ==
  IF ~readOK THEN "null"
  ELSE IF FallbackRows(snaps) = {} THEN "null"
  ELSE "found"

staleAgeOf(snap, t) == MathRound(t - snap.fetchedAt, TicksPerHour)

StaleData(snap, t) ==
  [payload |-> snap.parsedData.payload, fetchedAt |-> snap.parsedData.fetchedAt,
   isStale |-> TRUE, staleAge |-> staleAgeOf(snap, t)]

\* ------------------------------------------------------------ image cache
Prompts == {"sunrise", "storm"}
ImageTypes == {"atmospheric", "weather_graphic"}
StyleVersions == {1, 2}
OutputPaths == {"o1", "o2"}

\* what a file on disk holds: the request it was generated for and the
\* number of the generator invocation that produced it
NoImage == [prompt |-> "none", imageType |-> "none", styleVersion |-> 0, gen |-> 0]

\* sha256 of "prompt|imageType|styleVersion": imageType is one of three
\* words and styleVersion a number, so distinct triples give distinct
\* strings; the digest is kept as the triple it was taken from.
generateCacheKey(prompt, imageType, styleVersion) == <<prompt, imageType, styleVersion>>

\* a lookup that never finds a row
cacheMatches_Never(rows, promptHash, imageType, styleVersion) == {}

\* checkCache's WHERE clause: the rows the select may return.  There is no
\* ORDER BY, so LIMIT 1 gives any one of them.
cacheMatches(rows, promptHash, imageType, styleVersion) ==
  {i \in DOMAIN rows : /\ rows[i].promptHash = promptHash
                       /\ rows[i].imageType = imageType
                       /\ rows[i].styleVersion = styleVersion}

\* a hit declared without looking at the file
cacheHit_NoExistsCheck(rows, disk, i) == i # 0

\* checkCache: a row was returned and existsSync(row.imagePath)
cacheHit(rows, disk, i) == i # 0 /\ disk[rows[i].imagePath] # NoImage

\* a hit that records the time but not the use
touchRow_NoIncrement(rows, i, t) == [rows EXCEPT ![i].lastUsedAt = t]

\* checkCache's update of the row it hit: useCount (|| 1) + 1, lastUsedAt
touchRow(rows, i, t) ==
  [rows EXCEPT ![i].useCount = (IF @ = 0 THEN 1 ELSE @) + 1, ![i].lastUsedAt = t]

\* saveToCache: a plain insert under a new id
saveToCache(rows, promptHash, imageType, styleVersion, imagePath, t) ==
  Append(rows, [id |-> Len(rows) + 1, promptHash |-> promptHash, imageType |-> imageType,
                styleVersion |-> styleVersion, imagePath |-> imagePath,
                useCount |-> 1, lastUsedAt |-> t])

NoCall == [prompt |-> "none", imageType |-> "none", styleVersion |-> 0,
           outputPath |-> "none", cached |-> FALSE, matched |-> 0, row |-> 0,
           threw |-> FALSE, content |-> NoImage]

IdleImg == [styleVersion |-> DefaultStyleVersion, disk |-> [o \in OutputPaths |-> NoImage],
            calls |-> 0, generated |-> 0, deleted |-> FALSE, orphaned |-> {},
            last |-> NoCall]

\* ---------------------------------------------------------- buildTimeline
\* Cue duration hints in seconds (0: the cue has no usable hint), audio
\* durations in units of 1/AudioDen second, and frame rates (0: not given).
CueDurationHints == {0, 2, 5}
FrameRates == {0, 1, 7, 30}
CueLists == UNION {[1..n -> CueDurationHints] : n \in 0..MaxTimelineCues}

\* Math.ceil(n / d) for n >= 0, d > 0
MathCeil_Floor(n, d) == n \div d

MathCeil(n, d) == (n + d - 1) \div d

\* Math.round(n / d) cut down instead of rounded half up
MathRoundFrames_Floor(n, d) == n \div d

\* Math.round(cueDuration * fps), the product taken as the fraction n / d
MathRoundFrames(n, d) == MathRound(n, d)

\* cue.duration || 5
cueSeconds(duration) == IF duration = 0 THEN DefaultCueDuration ELSE duration

RECURSIVE totalSpecifiedDuration(_)
totalSpecifiedDuration(cues) ==
  IF cues = <<>> THEN 0 ELSE cueSeconds(Head(cues)) + totalSpecifiedDuration(Tail(cues))

Placeholder == [file |-> "placeholder", n |-> 0]

\* the hinted seconds taken as frames without scaling to the audio
cueFrames_Unscaled(duration, audio, fps, total) ==
  MathRoundFrames(cueSeconds(duration) * fps, 1)

\* durationFrames of one cue: Math.round(cueDuration * fps) with
\* cueDuration = (cue.duration || 5) * scaleFactor and scaleFactor =
\* audioDuration / totalSpecifiedDuration
cueFrames(duration, audio, fps, total) ==
  MathRoundFrames(cueSeconds(duration) * audio * fps, total * AudioDen)

graphicFile(i) == [file |-> "graphic", n |-> i]

\* the loop over the cues from cue i on, currentFrame being the end of the
\* segment before; audio / (total * AudioDen) is scaleFactor
RECURSIVE layoutSegments(_, _, _, _, _, _, _)
layoutSegments(cues, i, currentFrame, audio, fps, total, totalFrames) ==
  IF i > Len(cues) THEN <<>>
  ELSE LET durationFrames == cueFrames(cues[i], audio, fps, total)
           endFrame == Min({currentFrame + durationFrames, totalFrames})
       IN <<[startFrame |-> currentFrame, endFrame |-> endFrame,
             durationFrames |-> endFrame - currentFrame, imagePath |-> graphicFile(i)]>>
          \o layoutSegments(cues, i + 1, endFrame, audio, fps, total, totalFrames)

\* the last segment left where the loop ended it
extendLast_Never(segments, totalFrames) == segments

\* remaining time goes to the last segment
extendLast(segments, totalFrames) ==
  IF Len(segments) > 0 /\ segments[Len(segments)].endFrame < totalFrames
    THEN LET lastSegment == segments[Len(segments)] IN
         [segments EXCEPT ![Len(segments)] =
            [lastSegment EXCEPT !.endFrame = totalFrames,
                                !.durationFrames = totalFrames - lastSegment.startFrame]]
    ELSE segments

buildTimeline(cues, audio, fpsOption) ==
  LET fps == IF fpsOption = 0 THEN DEFAULT_FPS ELSE fpsOption
      totalFrames == MathCeil(audio * fps, AudioDen)
  IN [fps |-> fps, durationInFrames |-> totalFrames,
      segments |->
        IF Len(cues) = 0
          THEN <<[startFrame |-> 0, endFrame |-> totalFrames,
                  durationFrames |-> totalFrames, imagePath |-> Placeholder]>>
          ELSE extendLast(layoutSegments(cues, 1, 0, audio, fps,
                                         totalSpecifiedDuration(cues), totalFrames),
                          totalFrames)]

NoTimeline == [pc |-> "none", cues |-> <<>>, audio |-> 0, fpsOption |-> 0,
               fps |-> 0, durationInFrames |-> 0, segments |-> <<>>, frames |-> <<>>]

TimelineInputs ==
  {[NoTimeline EXCEPT !.pc = "input", !.cues = c, !.audio = a, !.fpsOption = f] :
     c \in CueLists, a \in 0..MaxAudioUnits, f \in FrameRates}

\* ------------------------------------------------------------------- Init
IdleRun ==
  [pc |-> "idle", date |-> "d1", preview |-> FALSE, video |-> TRUE,
   images |-> TRUE, epId |-> 0, epNum |-> 0, audio |-> FALSE,
   script |-> Null, invoked |-> {}, resumed |-> FALSE, hadScript |-> FALSE,
   allOK |-> TRUE, elevenOK |-> FALSE, cause |-> "none", wroteAt |-> 0]

NoResult == [success |-> FALSE, usedFallback |-> FALSE, hasData |-> FALSE,
             data |-> [payload |-> "none", fetchedAt |-> 0, isStale |-> FALSE, staleAge |-> 0],
             error |-> "none"]

IdleFetch ==
  [pc |-> "idle", attempt |-> 0, epId |-> 0, calls |-> 0, lastError |-> "null",
   failures |-> 0, delays |-> <<>>, readOK |-> TRUE, at |-> 0, result |-> NoResult,
   saveFailed |-> FALSE, savedAt |-> 0, lookups |-> 0,
   docs |-> [afd |-> FALSE, forecast |-> FALSE], base |-> 0]

Init ==
  /\ episodes = <<>>
  /\ snapshots = <<>>
  /\ imgFiles = [d \in Dates |-> 0]
  /\ run = [p \in Procs |-> IdleRun]
  /\ runs = 0
  /\ now = 0
  /\ fetch = IdleFetch
  /\ imageCache = <<>>
  /\ img = IdleImg
  /\ timeline = NoTimeline

\* ------------------------------------------------- generateCommand (Spec)
Set(p, f) ==
  [run EXCEPT ![p] = [k \in DOMAIN run[p] |-> IF k \in DOMAIN f THEN f[k] ELSE run[p][k]]]

\* After the episode is known: preview mode returns, otherwise the pipeline
\* starts with the fetching stage.
\* a preview that goes on into the pipeline
AfterEpisode_IgnoresPreview(p) == "setFetching"

AfterEpisode(p) == IF run[p].preview THEN "finished" ELSE "setFetching"

\* A new invocation of the CLI: option parsing and initializeDb.  The target
\* date is drawn from D and the --preview flag from PV.
Invoke(p, D, PV) ==
  /\ \E d \in D, pv \in PV, vd \in BOOLEAN, im \in BOOLEAN :
       run' = [run EXCEPT ![p] =
                 [IdleRun EXCEPT !.pc = "lookup", !.date = d, !.preview = pv,
                                 !.video = vd, !.images = im]]
  /\ runs' = runs + 1
  /\ UNCHANGED <<episodes, snapshots, imgFiles, now, fetch, imageCache, img, timeline>>

RunEnded(p) == run[p].pc \in {"idle", "finished", "failed"}

\* The operator invokes the command again once the previous run has ended.
Start(p) ==
  /\ RunEnded(p)
  /\ runs < MaxRuns
  /\ Invoke(p, PipelineDates, BOOLEAN)

\* A process invokes the command once, whatever the other process does.
StartOnce(p) ==
  /\ run[p].pc = "idle"
  /\ Invoke(p, PipelineDates, BOOLEAN)

\* The operator invokes the command in preview mode, which only looks the
\* episode up and creates it when the date has none.
StartPreview(p) ==
  /\ RunEnded(p)
  /\ runs < MaxRuns
  /\ Invoke(p, Dates, {TRUE})

\* a lookup that resumes a complete episode like any other
Lookup_ResumesDone(p) ==
  /\ run[p].pc = "lookup"
  /\ LET i == selectByDate(run[p].date) IN
       IF i # 0
         THEN run' = Set(p, [pc |-> AfterEpisode(p),
                             cause |-> IF run[p].preview THEN "preview" ELSE "none",
                             epId |-> episodes[i].id,
                             epNum |-> episodes[i].episodeNumber,
                             resumed |-> TRUE,
                             hadScript |-> ~Falsy(episodes[i].script)])
         ELSE run' = Set(p, [pc |-> "selectLast"])
  /\ UNCHANGED <<episodes, snapshots, imgFiles, runs, now, fetch, imageCache, img, timeline>>

\* Check for existing episode.
Lookup(p) ==
  /\ run[p].pc = "lookup"
  /\ LET i == selectByDate(run[p].date) IN
       IF i # 0
         THEN IF episodes[i].status = "done"
                THEN run' = Set(p, [pc |-> "finished", cause |-> "already_done"])
                ELSE run' = Set(p, [pc |-> AfterEpisode(p),
                                    cause |-> IF run[p].preview THEN "preview" ELSE "none",
                                    epId |-> episodes[i].id,
                                    epNum |-> episodes[i].episodeNumber,
                                    resumed |-> TRUE,
                                    hadScript |-> ~Falsy(episodes[i].script)])
         ELSE run' = Set(p, [pc |-> "selectLast"])
  /\ UNCHANGED <<episodes, snapshots, imgFiles, runs, now, fetch, imageCache, img, timeline>>

\* Get next episode number.
SelectLast(p) ==
  /\ run[p].pc = "selectLast"
  /\ run' = Set(p, [pc |-> "insert", epNum |-> nextEpisodeNumber])
  /\ UNCHANGED <<episodes, snapshots, imgFiles, runs, now, fetch, imageCache, img, timeline>>

\* Create new episode record; the UNIQUE constraint may reject the insert.
Insert(p) ==
  /\ run[p].pc = "insert"
  /\ IF UniqueViolation(run[p].date)
       THEN /\ run' = Set(p, [pc |-> "failed", cause |-> "unique"])
            /\ UNCHANGED episodes
       ELSE /\ episodes' = Append(episodes, NewEpisode(run[p].date, run[p].epNum))
            /\ run' = Set(p, [pc |-> AfterEpisode(p),
                              cause |-> IF run[p].preview THEN "preview" ELSE "none",
                              epId |-> Len(episodes) + 1])
  /\ UNCHANGED <<snapshots, imgFiles, runs, now, fetch, imageCache, img, timeline>>

\* updateEpisodeStatus(db, episode.id, stage) before each stage.
SetStatus(p, from, stage, to) ==
  /\ run[p].pc = from
  /\ episodes' = updateEpisodeStatus(run[p].epId, stage)
  /\ run' = Set(p, [pc |-> to, cause |-> IF stage = "done" THEN "completed" ELSE "none",
                    wroteAt |-> now])
  /\ UNCHANGED <<snapshots, imgFiles, runs, now, fetch, imageCache, img, timeline>>

SetFetching(p) == SetStatus(p, "setFetching", "fetching", "fetchWeather")
SetGenerating(p) == SetStatus(p, "setGenerating", "generating", "generateScript")
SetSynthesizing(p) == SetStatus(p, "setSynthesizing", "synthesizing", "synthesizeAudio")
SetSyncing(p) == SetStatus(p, "setSyncing", "syncing", "setComposing")
SetComposing(p) == SetStatus(p, "setComposing", "composing", "renderVideo")
SetDone(p) == SetStatus(p, "setDone", "done", "finished")

\* Phase 1: fetchWeatherData(episode.id) as generateCommand sees it: fresh
\* data (snapshot saved best-effort), stale data from the newest snapshot,
\* or no data at all, which throws.
FetchWeather(p) ==
  /\ run[p].pc = "fetchWeather"
  /\ \/ \E w \in Payloads, saveOK \in BOOLEAN :
          /\ snapshots' = saveWeatherSnapshot(snapshots, FreshData(w, now), run[p].epId, saveOK)
          /\ run' = Set(p, [pc |-> "setGenerating", invoked |-> run[p].invoked \cup {"fetch"}])
     \/ \E readOK \in BOOLEAN :
          /\ UNCHANGED snapshots
          /\ IF readOK /\ FallbackRows(snapshots) # {}
               THEN run' = Set(p, [pc |-> "setGenerating", allOK |-> FALSE,
                                   invoked |-> run[p].invoked \cup {"fetch"}])
               ELSE run' = Set(p, [pc |-> "failed", cause |-> "fetch", allOK |-> FALSE,
                                   invoked |-> run[p].invoked \cup {"fetch"}])
  /\ UNCHANGED <<episodes, imgFiles, runs, now, fetch, imageCache, img, timeline>>

\* Phase 2: generate the script unless Claude is not configured.
GenerateScript(p) ==
  /\ run[p].pc = "generateScript"
  /\ \/ \* isClaudeAvailable() is false: skipped with a warning
        /\ run' = Set(p, [pc |-> "readScript", allOK |-> FALSE])
        /\ UNCHANGED episodes
     \/ \* generateScript throws
        /\ run' = Set(p, [pc |-> "failed", cause |-> "script", allOK |-> FALSE,
                          invoked |-> run[p].invoked \cup {"script"}])
        /\ UNCHANGED episodes
     \/ \E s \in Scripts \cup {EmptyText} :
          /\ episodes' = setFields(run[p].epId, [script |-> s])
          /\ run' = Set(p, [pc |-> "readScript",
                            allOK |-> run[p].allOK /\ s # EmptyText,
                            invoked |-> run[p].invoked \cup {"script"}])
  /\ UNCHANGED <<snapshots, imgFiles, runs, now, fetch, imageCache, img, timeline>>

\* Get the script from the database; no script throws.
ReadScript(p) ==
  /\ run[p].pc = "readScript"
  /\ LET script == episodes[RowById(run[p].epId)].script IN
       IF Falsy(script)
         THEN run' = Set(p, [pc |-> "failed", cause |-> "noscript"])
         ELSE run' = Set(p, [pc |-> IF run[p].video THEN "setSynthesizing" ELSE "images",
                             script |-> script])
  /\ UNCHANGED <<episodes, snapshots, imgFiles, runs, now, fetch, imageCache, img, timeline>>

\* audio synthesis that forgets to record the audio on the row
SynthesizeAudio_NotRecorded(p) ==
  /\ run[p].pc = "synthesizeAudio"
  /\ \/ /\ run' = Set(p, [pc |-> "images", allOK |-> FALSE])
     \/ /\ run' = Set(p, [pc |-> "failed", cause |-> "audio", allOK |-> FALSE,
                          elevenOK |-> TRUE,
                          invoked |-> run[p].invoked \cup {"audio"}])
     \/ /\ run' = Set(p, [pc |-> "images", audio |-> TRUE, elevenOK |-> TRUE,
                          invoked |-> run[p].invoked \cup {"audio"}])
  /\ UNCHANGED <<episodes, snapshots, imgFiles, runs, now, fetch, imageCache, img, timeline>>

\* Phase 3: audio synthesis, then the row gets audioPath and durationSecs.
SynthesizeAudio(p) ==
  /\ run[p].pc = "synthesizeAudio"
  /\ \/ \* isElevenLabsAvailable() is false: skipped with a warning
        /\ run' = Set(p, [pc |-> "images", allOK |-> FALSE])
        /\ UNCHANGED episodes
     \/ \* synthesizeAudio throws
        /\ run' = Set(p, [pc |-> "failed", cause |-> "audio", allOK |-> FALSE,
                          elevenOK |-> TRUE,
                          invoked |-> run[p].invoked \cup {"audio"}])
        /\ UNCHANGED episodes
     \/ /\ episodes' = setFields(run[p].epId, [audioPath |-> "mp3", durationSecs |-> "secs"])
        /\ run' = Set(p, [pc |-> "images", audio |-> TRUE, elevenOK |-> TRUE,
                          invoked |-> run[p].invoked \cup {"audio"}])
  /\ UNCHANGED <<snapshots, imgFiles, runs, now, fetch, imageCache, img, timeline>>

\* Phase 5 entry conditions, evaluated right after the image phase.
AfterImages(p) ==
  IF run[p].video /\ run[p].audio /\ TRUE \* isRemotionAvailable()
    THEN "setSyncing"
    ELSE "setDone"

\* Phase 4: generateImagesForCues writes graphic-01..graphic-k into the
\* output directory of the date, one cue after the other; it stops at the
\* first cue whose generation throws.
GenerateImages(p) ==
  /\ run[p].pc = "images"
  /\ LET k == parseGraphicCues(run[p].script)
         d == run[p].date IN
       \/ \* --no-images
          /\ ~run[p].images
          /\ run' = Set(p, [pc |-> AfterImages(p)])
          /\ UNCHANGED imgFiles
       \/ \* isGeminiAvailable() is false: skipped with a warning
          /\ run[p].images
          /\ run' = Set(p, [pc |-> AfterImages(p), allOK |-> FALSE])
          /\ UNCHANGED imgFiles
       \/ \* no graphic cues found in script
          /\ run[p].images /\ k = 0
          /\ run' = Set(p, [pc |-> AfterImages(p)])
          /\ UNCHANGED imgFiles
       \/ /\ run[p].images /\ k > 0
          /\ \E j \in 0..k :
               /\ imgFiles' = [imgFiles EXCEPT ![d] = Max({imgFiles[d], j})]
               /\ IF j = k
                    THEN run' = Set(p, [pc |-> AfterImages(p),
                                        invoked |-> run[p].invoked \cup {"image"}])
                    ELSE run' = Set(p, [pc |-> "failed", cause |-> "image", allOK |-> FALSE,
                                        invoked |-> run[p].invoked \cup {"image"}])
  /\ UNCHANGED <<episodes, snapshots, runs, now, fetch, imageCache, img, timeline>>

\* Image paths of the timeline buildTimeline returns for k cues: graphic-01
\* .. graphic-k, or placeholder.png when there is no cue.  Nothing in the
\* program writes placeholder.png.
TimelineImagesExist(d, k) == IF k = 0 THEN FALSE ELSE imgFiles[d] >= k

\* Render video: renderVideo checks that every referenced image exists,
\* renders, and the row gets videoPath.
RenderVideo(p) ==
  /\ run[p].pc = "renderVideo"
  /\ LET k == parseGraphicCues(run[p].script) IN
       IF ~TimelineImagesExist(run[p].date, k)
         THEN /\ run' = Set(p, [pc |-> "failed", cause |-> "missing_image",
                                invoked |-> run[p].invoked \cup {"render"}])
              /\ UNCHANGED episodes
         ELSE \/ /\ run' = Set(p, [pc |-> "failed", cause |-> "render", allOK |-> FALSE,
                                   invoked |-> run[p].invoked \cup {"render"}])
                 /\ UNCHANGED episodes
              \/ /\ episodes' = setFields(run[p].epId, [videoPath |-> "mp4"])
                 /\ run' = Set(p, [pc |-> "setDone",
                                   invoked |-> run[p].invoked \cup {"render"}])
  /\ UNCHANGED <<snapshots, imgFiles, runs, now, fetch, imageCache, img, timeline>>

Step(p) ==
  \/ Lookup(p)
  \/ SelectLast(p)
  \/ Insert(p)
  \/ SetFetching(p)
  \/ FetchWeather(p)
  \/ SetGenerating(p)
  \/ GenerateScript(p)
  \/ ReadScript(p)
  \/ SetSynthesizing(p)
  \/ SynthesizeAudio(p)
  \/ GenerateImages(p)
  \/ SetSyncing(p)
  \/ SetComposing(p)
  \/ RenderVideo(p)
  \/ SetDone(p)

Operator == "A"

Next == Start(Operator) \/ Step(Operator)

Spec == Init /\ [][Next]_vars

NextRace == \E p \in Procs : StartOnce(p) \/ Step(p)

SpecRace == Init /\ [][NextRace]_vars

NextCreate == StartPreview(Operator) \/ Lookup(Operator) \/ SelectLast(Operator) \/ Insert(Operator)

SpecCreate == Init /\ [][NextCreate]_vars

\* Time passes, at any point of a run or between runs.
Elapse ==
  /\ now < MaxElapse
  /\ now' = now + 1
  /\ UNCHANGED <<episodes, snapshots, imgFiles, run, runs, fetch, imageCache, img, timeline>>

NextTimed == Next \/ Elapse

SpecTimed == Init /\ [][NextTimed]_vars

\* ------------------------------------------- fetchWeatherData (SpecFetch)
EpisodeIds == {1, 2}

SetF(f) == [k \in DOMAIN fetch |-> IF k \in DOMAIN f THEN f[k] ELSE fetch[k]]

\* the exponent taken one too high
Pow2_Shifted(n) == IF n = 0 THEN 2 ELSE 4

Pow2(n) == IF n = 0 THEN 1 ELSE IF n = 1 THEN 2 ELSE 4

\* an attempt that counts with one document only
attemptSucceeds_Either(afdOK, forecastOK) == afdOK \/ forecastOK

\* Promise.all([fetchAFD(), fetchForecast()]) resolves when both resolve
attemptSucceeds(afdOK, forecastOK) == afdOK /\ forecastOK

\* A caller invokes fetchWeatherData(episodeId).
FetchCall ==
  /\ fetch.pc \in {"idle", "returned"}
  /\ fetch.calls < MaxFetchCalls
  /\ \E e \in EpisodeIds :
       fetch' = [IdleFetch EXCEPT !.pc = "attempt", !.attempt = 1, !.epId = e,
                                  !.calls = fetch.calls + 1,
                                  !.base = Len(snapshots)]
  /\ UNCHANGED <<episodes, snapshots, imgFiles, run, runs, now, imageCache, img, timeline>>

\* One pass of the retry loop: both documents are fetched together; on
\* success the snapshot is saved best-effort and the call returns, otherwise
\* the error is kept and the loop backs off or ends.
FetchAttempt ==
  /\ fetch.pc = "attempt"
  /\ \E afdOK \in BOOLEAN, forecastOK \in BOOLEAN, w \in Payloads, saveOK \in BOOLEAN :
       LET fetched == attemptSucceeds(afdOK, forecastOK)
           wrote == IF fetched THEN snapshotWrite(saveOK) ELSE "none"
       IN
       IF fetched /\ wrote # "threw"
         THEN /\ snapshots' = saveWeatherSnapshot(snapshots, FreshData(w, now), fetch.epId, saveOK)
              /\ fetch' = SetF([pc |-> "returned", at |-> now,
                                docs |-> [afd |-> afdOK, forecast |-> forecastOK],
                                saveFailed |-> ~saveOK, savedAt |-> fetch.attempt,
                                result |-> [success |-> TRUE, usedFallback |-> FALSE,
                                            hasData |-> TRUE,
                                            data |-> [payload |-> w, fetchedAt |-> now,
                                                      isStale |-> FALSE, staleAge |-> 0],
                                            error |-> "none"]])
         ELSE /\ UNCHANGED snapshots
              /\ fetch' = SetF([docs |-> [afd |-> afdOK, forecast |-> forecastOK],
                                lastError |-> IF fetched THEN "snapshot"
                                              ELSE IF afdOK THEN "forecast" ELSE "afd",
                                saveFailed |-> fetch.saveFailed \/ fetched,
                                savedAt |-> IF fetched /\ ~fetch.saveFailed
                                              THEN fetch.attempt ELSE fetch.savedAt,
                                failures |-> fetch.failures + 1,
                                pc |-> IF fetch.attempt < MAX_RETRIES THEN "sleep" ELSE "fallback",
                                delays |-> IF fetch.attempt < MAX_RETRIES
                                             THEN Append(fetch.delays,
                                                         RETRY_DELAY_MS * Pow2(fetch.attempt - 1))
                                             ELSE fetch.delays])
  /\ UNCHANGED <<episodes, imgFiles, run, runs, now, imageCache, img, timeline>>

\* The backoff sleep ends and the loop goes to the next attempt.
FetchRetry ==
  /\ fetch.pc = "sleep"
  /\ fetch' = SetF([pc |-> "attempt", attempt |-> fetch.attempt + 1])
  /\ UNCHANGED <<episodes, snapshots, imgFiles, run, runs, now, imageCache, img, timeline>>

\* All retries failed: the newest snapshot, marked stale, or no data.
FetchFallback ==
  /\ fetch.pc = "fallback"
  /\ \E readOK \in BOOLEAN :
       LET found == fallbackLookup(snapshots, readOK) IN
         IF found = "threw"
           THEN fetch' = SetF([pc |-> "threw", readOK |-> readOK, at |-> now,
                               lookups |-> fetch.lookups + 1])
         ELSE IF found = "found"
           THEN \E i \in FallbackRows(snapshots) :
                  fetch' = SetF([pc |-> "returned", readOK |-> readOK, at |-> now,
                                 lookups |-> fetch.lookups + 1,
                                 result |-> [success |-> TRUE, usedFallback |-> TRUE,
                                             hasData |-> TRUE,
                                             data |-> StaleData(snapshots[i], now),
                                             error |-> "none"]])
           ELSE fetch' = SetF([pc |-> "returned", readOK |-> readOK, at |-> now,
                               lookups |-> fetch.lookups + 1,
                               result |-> [NoResult EXCEPT !.error = fetch.lastError]])
  /\ UNCHANGED <<episodes, snapshots, imgFiles, run, runs, now, imageCache, img, timeline>>

\* Half an hour passes, between calls or during a backoff sleep.
Tick ==
  /\ fetch.pc \in {"idle", "returned", "sleep"}
  /\ now < MaxTime
  /\ now' = now + 1
  /\ UNCHANGED <<episodes, snapshots, imgFiles, run, runs, fetch, imageCache, img, timeline>>

NextFetch == FetchCall \/ FetchAttempt \/ FetchRetry \/ FetchFallback \/ Tick

SpecFetch == Init /\ [][NextFetch]_vars

\* ---------------------------------------------- generateImage (SpecCache)
\* generateImage(request): look the key up; on a hit copy the cached file
\* to request.outputPath, otherwise call the generator, write its image to
\* request.outputPath and insert a cache row for it.
GenerateImage ==
  /\ img.calls < MaxImageCalls
  /\ \E prompt \in Prompts, imageType \in ImageTypes, outputPath \in OutputPaths,
        apiOK \in BOOLEAN :
       LET version == img.styleVersion
           promptHash == generateCacheKey(prompt, imageType, version)
           m == cacheMatches(imageCache, promptHash, imageType, version)
           t == img.calls + 1
           call == [NoCall EXCEPT !.prompt = prompt, !.imageType = imageType,
                                  !.styleVersion = version, !.outputPath = outputPath]
       IN \E i \in (IF m = {} THEN {0} ELSE m) :
            IF cacheHit(imageCache, img.disk, i)
              THEN LET cachedPath == imageCache[i].imagePath IN
                   /\ imageCache' = touchRow(imageCache, i, t)
                   /\ IF img.disk[cachedPath] = NoImage
                        THEN img' = [img EXCEPT !.calls = t,
                                       !.last = [call EXCEPT !.matched = i, !.threw = TRUE]]
                        ELSE img' = [img EXCEPT !.calls = t,
                                       !.disk[outputPath] = img.disk[cachedPath],
                                       !.last = [call EXCEPT !.matched = i, !.row = i,
                                                             !.cached = TRUE,
                                                             !.content = img.disk[cachedPath]]]
            ELSE IF apiOK
              THEN LET image == [prompt |-> prompt, imageType |-> imageType,
                                 styleVersion |-> version, gen |-> img.generated + 1] IN
                   /\ imageCache' = saveToCache(imageCache, promptHash, imageType, version,
                                                outputPath, t)
                   /\ img' = [img EXCEPT !.calls = t, !.generated = @ + 1,
                                         !.disk[outputPath] = image,
                                         !.last = [call EXCEPT !.matched = i,
                                                               !.row = Len(imageCache) + 1,
                                                               !.content = image]]
              ELSE /\ UNCHANGED imageCache
                   /\ img' = [img EXCEPT !.calls = t, !.generated = @ + 1,
                                         !.last = [call EXCEPT !.matched = i, !.threw = TRUE]]
  /\ UNCHANGED <<episodes, snapshots, imgFiles, run, runs, now, fetch, timeline>>

\* Someone removes an image file from the output directory.
DeleteFile ==
  /\ \E o \in OutputPaths :
       /\ img.disk[o] # NoImage
       /\ img' = [img EXCEPT !.disk[o] = NoImage, !.deleted = TRUE]
  /\ UNCHANGED <<episodes, snapshots, imgFiles, run, runs, now, fetch, imageCache, timeline>>

\* a version change that also clears the rows of the other versions
SetStyleVersion_Purges ==
  /\ \E v \in StyleVersions \ {img.styleVersion} :
       /\ img' = [img EXCEPT !.styleVersion = v]
       /\ imageCache' = SelectSeq(imageCache, LAMBDA r : r.styleVersion = v)
  /\ UNCHANGED <<episodes, snapshots, imgFiles, run, runs, now, fetch, timeline>>

\* The process is restarted with another STYLE_VERSION in its environment.
SetStyleVersion ==
  /\ \E v \in StyleVersions \ {img.styleVersion} :
       img' = [img EXCEPT !.styleVersion = v,
                          !.orphaned = @ \cup {imageCache[i].id : i \in
                                                 {j \in DOMAIN imageCache :
                                                    imageCache[j].styleVersion # v}}]
  /\ UNCHANGED <<episodes, snapshots, imgFiles, run, runs, now, fetch, imageCache, timeline>>

NextCache == GenerateImage \/ DeleteFile \/ SetStyleVersion

SpecCache == Init /\ [][NextCache]_vars

\* ---------------------------------------------- buildTimeline (SpecTimeline)
InitTimeline ==
  /\ episodes = <<>>
  /\ snapshots = <<>>
  /\ imgFiles = [d \in Dates |-> 0]
  /\ run = [p \in Procs |-> IdleRun]
  /\ runs = 0
  /\ now = 0
  /\ fetch = IdleFetch
  /\ imageCache = <<>>
  /\ img = IdleImg
  /\ timeline \in TimelineInputs

\* buildTimeline is applied to the options drawn.
BuildTimeline ==
  /\ timeline.pc = "input"
  /\ LET built == buildTimeline(timeline.cues, timeline.audio, timeline.fpsOption) IN
       timeline' = [timeline EXCEPT !.pc = "built", !.fps = built.fps,
                                    !.durationInFrames = built.durationInFrames,
                                    !.segments = built.segments,
                                    !.frames = [i \in 1..Len(timeline.cues) |->
                                                  cueFrames(timeline.cues[i], timeline.audio,
                                                            built.fps,
                                                            totalSpecifiedDuration(timeline.cues))]]
  /\ UNCHANGED <<episodes, snapshots, imgFiles, run, runs, now, fetch, imageCache, img>>

NextTimeline == BuildTimeline

SpecTimeline == InitTimeline /\ [][NextTimeline]_vars

\* ============================================================== properties
RowOf(p) == episodes[RowById(run[p].epId)]

\* C1: a run that resumes a row which already holds a non-empty script does
\* not invoke the narration generator again.
C1_ResumeSkipsNarration ==
  \A p \in Procs :
    (run[p].resumed /\ run[p].hadScript) => "script" \notin run[p].invoked

\* C2: when a run has failed, its row has stage error and a non-empty error
\* field.
C2_FailedRunMarksError ==
  \A p \in Procs :
    (run[p].pc = "failed" /\ run[p].epId # 0) =>
       (RowOf(p).status = "error" /\ RowOf(p).error # "null")

\* C3: an invocation for a date whose row is done ends at once: it inserts
\* no row, changes no field of any row, writes no snapshot and no file, and
\* invokes no collaborator.
C3_DoneIsNoOp ==
  [][\A p \in Procs :
       ( /\ run[p].pc = "lookup"
         /\ run'[p].pc # "lookup"
         /\ selectByDate(run[p].date) # 0
         /\ episodes[selectByDate(run[p].date)].status = "done" )
       => ( /\ run'[p].pc = "finished"
            /\ run'[p].invoked = {}
            /\ episodes' = episodes
            /\ snapshots' = snapshots
            /\ imgFiles' = imgFiles )]_vars

\* a second or later invocation has returned on a done row
C3_Witness ==
  \E p \in Procs :
    /\ run[p].pc = "finished" /\ run[p].cause = "already_done"
    /\ runs >= 3
    /\ episodes[selectByDate(run[p].date)].status = "done"

\* C4: every row was created with the sequence number one greater than the
\* maximum over the rows existing then, or the configured starting number
\* when there was none.
C4_NextNumberIsMaxPlusOne ==
  \A i \in DOMAIN episodes :
    episodes[i].episodeNumber =
      IF i = 1 THEN EpisodeStartNumber
      ELSE Max({episodes[j].episodeNumber : j \in 1..(i - 1)}) + 1

\* C5: the episodes table holds at most one row per broadcast date, in every
\* interleaving of two concurrent runs.
C5_OneRowPerDate ==
  \A d \in Dates : Cardinality(RowsFor(d)) <= 1

\* both runs found no row for the date; one inserted, the other was rejected
C5_Witness ==
  \E p, q \in Procs :
    /\ p # q
    /\ run[p].date = run[q].date
    /\ run[p].cause = "unique"
    /\ run[q].epId # 0 /\ ~run[q].resumed

\* C6: a row's stage never changes to an earlier stage; the only change
\* that is not forward is a change into error.
C6_StageOnlyForward ==
  [][\A i \in DOMAIN episodes :
       episodes'[i].status # episodes[i].status =>
         \/ episodes'[i].status = "error"
         \/ StageIndex(episodes'[i].status) > StageIndex(episodes[i].status)]_vars

C8_GoodRerunCompletes ==
  \A p \in Procs :
    ( /\ run[p].resumed /\ ~run[p].preview
      /\ run[p].images /\ run[p].allOK )
    => run[p].pc # "failed"

\* h is the number of whole hours nearest to an age of t ticks, halves up
NearestHour(h, t) ==
  /\ 2 * h * TicksPerHour - TicksPerHour <= 2 * t
  /\ 2 * t < 2 * h * TicksPerHour + TicksPerHour

C10_FailsOnlyWithoutSnapshot ==
  /\ fetch.pc # "threw"
  /\ fetch.pc = "returned" =>
       /\ ~fetch.result.success <=> (fetch.failures = MAX_RETRIES /\ snapshots = <<>>)
       /\ ~fetch.result.success => (~fetch.result.usedFallback /\ ~fetch.result.hasData)
       /\ fetch.result.success => fetch.result.hasData

\* C10 amended: the call never raises, and it returns success = false (no
\* fallback, no data) exactly when all 3 attempts failed and the fallback
\* lookup gave nothing: no snapshot exists or reading the store failed.
C10_FailsOnlyWithoutFallback ==
  /\ fetch.pc # "threw"
  /\ fetch.pc = "returned" =>
       /\ ~fetch.result.success <=>
            (fetch.failures = MAX_RETRIES /\ (snapshots = <<>> \/ ~fetch.readOK))
       /\ ~fetch.result.success => (~fetch.result.usedFallback /\ ~fetch.result.hasData)
       /\ fetch.result.success => fetch.result.hasData

\* a call returned without data although a snapshot exists: the read failed
C10_Witness ==
  /\ fetch.pc = "returned" /\ fetch.failures = MAX_RETRIES
  /\ ~fetch.result.success /\ ~fetch.readOK
  /\ snapshots # <<>>

\* C11: when both documents of an attempt were fetched and writing the
\* snapshot then fails, the call still returns success = true, usedFallback
\* = false and the data fetched in that attempt, makes no further attempt
\* and no fallback lookup.
C11_SnapshotFailureIsHarmless ==
  fetch.saveFailed =>
    /\ fetch.pc = "returned"
    /\ fetch.attempt = fetch.savedAt
    /\ fetch.lookups = 0
    /\ fetch.result.success /\ ~fetch.result.usedFallback /\ fetch.result.hasData
    /\ fetch.result.data.fetchedAt = fetch.at /\ ~fetch.result.data.isStale

\* the second attempt fetched both documents, the snapshot write failed,
\* and the call returned the fresh data while no snapshot was stored
C11_Witness ==
  /\ fetch.saveFailed /\ fetch.pc = "returned"
  /\ fetch.attempt = 2 /\ fetch.failures = 1
  /\ fetch.result.success /\ snapshots = <<>>

\* the step is a generateImage call
ImageCall == img'.calls = img.calls + 1

\* rows of the table, before the call, that carry the key of the call
KeyRows(call) ==
  {i \in DOMAIN imageCache :
     /\ imageCache[i].promptHash = <<call.prompt, call.imageType, call.styleVersion>>
     /\ imageCache[i].imageType = call.imageType
     /\ imageCache[i].styleVersion = call.styleVersion}

SameKey(c1, c2) ==
  c1.prompt = c2.prompt /\ c1.imageType = c2.imageType /\ c1.styleVersion = c2.styleVersion

\* C12: when a generateImage call generated an image and the next call has
\* the same prompt, image type and style version while the file of the
\* first is still on disk, the second call does not invoke the generator
\* and reports cached = true.
C12_SecondCallIsCacheHit ==
  [][(/\ ImageCall
      /\ img.calls > 0 /\ ~img.last.threw /\ ~img.last.cached
      /\ SameKey(img'.last, img.last)
      /\ img.disk[img.last.outputPath] = img.last.content)
     => (img'.generated = img.generated /\ img'.last.cached)]_vars

\* C13: a generateImage call whose lookup returns a row with a missing file
\* invokes the generator and raises nothing on account of the file; when the
\* generator succeeds, one row is appended, the rows before stay as they
\* were, and the call returns cached = false with its image on disk at the
\* requested path; when the generator fails, no row changes.
C13_MissingFileIsAMiss ==
  [][(/\ ImageCall
      /\ img'.last.matched # 0
      /\ img.disk[imageCache[img'.last.matched].imagePath] = NoImage)
     => /\ img'.generated = img.generated + 1
        /\ img'.last.threw => imageCache' = imageCache
        /\ ~img'.last.threw =>
              /\ Len(imageCache') = Len(imageCache) + 1
              /\ SubSeq(imageCache', 1, Len(imageCache)) = imageCache
              /\ imageCache'[Len(imageCache')].imagePath = img'.last.outputPath
              /\ ~img'.last.cached
              /\ img'.last.content # NoImage
              /\ img'.last.content.prompt = img'.last.prompt
              /\ img'.disk[img'.last.outputPath] = img'.last.content]_vars

\* a call met a row whose file was gone and regenerated to another path:
\* the table holds the old row and the new one, the old file is still gone
C13_Witness ==
  /\ img.last.matched # 0 /\ ~img.last.cached /\ ~img.last.threw
  /\ img.last.row = Len(imageCache) /\ img.last.row # img.last.matched
  /\ img.disk[imageCache[img.last.matched].imagePath] = NoImage
  /\ img.disk[img.last.outputPath] = img.last.content

\* C14: when the newest row carrying the key of a call has its file on disk
\* and an older row with the same key has lost its file, the call is a hit
\* on the newest row and the generator is not invoked.
C14_LookupResolvesToNewRow ==
  [][(/\ ImageCall
      /\ KeyRows(img'.last) # {}
      /\ LET new == Max(KeyRows(img'.last)) IN
           /\ img.disk[imageCache[new].imagePath] # NoImage
           /\ \E old \in KeyRows(img'.last) :
                old < new /\ img.disk[imageCache[old].imagePath] = NoImage)
     => /\ img'.last.cached
        /\ img'.last.row = Max(KeyRows(img'.last))
        /\ img'.generated = img.generated]_vars

\* C15: a change of the style version leaves every cache row as it was; a
\* lookup only ever returns a row of the style version in force; and a call
\* for which the table holds a row created under the version in force does
\* match a row, also after the version was changed and set back.
C15_EpochIsolatesRows ==
  [][/\ img'.styleVersion # img.styleVersion =>
           (imageCache' = imageCache /\ img'.disk = img.disk)
     /\ ImageCall =>
           /\ img'.last.styleVersion = img.styleVersion
           /\ img'.last.matched # 0 =>
                 imageCache[img'.last.matched].styleVersion = img.styleVersion
           /\ KeyRows(img'.last) # {} => img'.last.matched \in KeyRows(img'.last)]_vars

\* a call hit a row that had been out of force in between
C15_Witness ==
  /\ img.last.cached
  /\ imageCache[img.last.row].id \in img.orphaned
  /\ imageCache[img.last.row].styleVersion = img.styleVersion

UniqueKeys ==
  \A i, j \in DOMAIN imageCache :
    (/\ imageCache[i].promptHash = imageCache[j].promptHash
     /\ imageCache[i].imageType = imageCache[j].imageType
     /\ imageCache[i].styleVersion = imageCache[j].styleVersion) => i = j

\* C16 as stated: no two cache rows share (promptHash, imageType,
\* styleVersion), whatever calls and file deletions came before.
C16_KeyIsUnique == UniqueKeys

\* C16 amended: as long as no image file has been deleted, no two cache
\* rows share (promptHash, imageType, styleVersion).
C16_KeyIsUniqueWithoutDeletion == ~img.deleted => UniqueKeys

\* three calls, one of them a hit, left two rows and no file was deleted
C16_Witness ==
  /\ ~img.deleted /\ img.calls = 3 /\ Len(imageCache) = 2 /\ img.last.cached

Span(seg) == <<seg.startFrame, seg.endFrame>>

\* C17: for every cue list with hints >= 0, audio duration >= 0 and frame
\* rate >= 0, buildTimeline returns one segment per cue (one segment when
\* there is no cue); the segments start at frame 0, each begins where the
\* one before ends, each has a length >= 0 equal to endFrame - startFrame,
\* and the last ends at totalFrames = durationInFrames.
C17_TimelineIsContiguous ==
  timeline.pc = "built" =>
    LET segs == timeline.segments
        n == Len(segs)
    IN /\ timeline.durationInFrames >= 0
       /\ n = Max({1, Len(timeline.cues)})
       /\ segs[1].startFrame = 0
       /\ segs[n].endFrame = timeline.durationInFrames
       /\ \A i \in 1..n :
            /\ segs[i].startFrame <= segs[i].endFrame
            /\ segs[i].durationFrames = segs[i].endFrame - segs[i].startFrame
       /\ \A i \in 1..(n - 1) : segs[i].endFrame = segs[i + 1].startFrame

\* three cues over a fraction of a second less than their rounded lengths
\* add up to: the last segment is clamped to length 0, or the cues ended
\* short and the last segment was extended
C17_Witness ==
  /\ timeline.pc = "built" /\ Len(timeline.cues) = 3
  /\ timeline.durationInFrames > 0
  /\ timeline.segments[3].durationFrames = 0
  /\ \E i \in 1..3 : timeline.cues[i] = 0

\* C18: 4 cues hinted 5 seconds each, audio of 27 seconds and 30 frames
\* per second give totalFrames 810 and the segments [0,203), [203,406),
\* [406,609), [609,810).
C18_FourCuesOver27Seconds ==
  (/\ timeline.pc = "built"
   /\ timeline.cues = <<5, 5, 5, 5>>
   /\ timeline.audio = 27 * AudioDen
   /\ timeline.fpsOption = 30)
  => /\ timeline.durationInFrames = 810
     /\ Len(timeline.segments) = 4
     /\ [i \in 1..4 |-> Span(timeline.segments[i])] =
          <<(<<0, 203>>), (<<203, 406>>), (<<406, 609>>), (<<609, 810>>)>>

C18_Witness ==
  /\ timeline.pc = "built"
  /\ timeline.cues = <<5, 5, 5, 5>>
  /\ timeline.audio = 27 * AudioDen
  /\ timeline.fpsOption = 30
  /\ timeline.segments[1].durationFrames = 203

\* C19 as stated: with no cue the timeline is one segment from frame 0 to
\* round(audioDuration * fps) that references the placeholder image.
C19_NoCuesSpanRounded ==
  (timeline.pc = "built" /\ timeline.cues = <<>>) =>
    /\ Len(timeline.segments) = 1
    /\ Span(timeline.segments[1]) =
         <<0, MathRound(timeline.audio * timeline.fpsOption, AudioDen)>>
    /\ timeline.segments[1].imagePath = Placeholder

\* C19 amended: with no cue the timeline is one segment from frame 0 to
\* ceil(audioDuration * fps) that references the placeholder image, fps
\* being 30 when the frame rate given is 0.
C19_NoCuesSpanCeiling ==
  (timeline.pc = "built" /\ timeline.cues = <<>>) =>
    LET fps == IF timeline.fpsOption = 0 THEN 30 ELSE timeline.fpsOption
        end == timeline.segments[1].endFrame
    IN /\ Len(timeline.segments) = 1
       /\ timeline.segments[1].startFrame = 0
       /\ end * AudioDen >= timeline.audio * fps
       /\ (end - 1) * AudioDen < timeline.audio * fps
       /\ end = timeline.durationInFrames
       /\ timeline.segments[1].durationFrames = end
       /\ timeline.segments[1].imagePath = Placeholder

\* no cue, a frame rate given, and audioDuration * fps has a fraction below
\* one half: the segment ends one frame after the rounded product
C19_Witness ==
  /\ timeline.pc = "built" /\ timeline.cues = <<>>
  /\ timeline.fpsOption # 0
  /\ timeline.segments[1].endFrame =
       MathRound(timeline.audio * timeline.fpsOption, AudioDen) + 1

StageOfCollaborator ==
  [fetch |-> "fetching", script |-> "generating", audio |-> "synthesizing",
   image |-> "synthesizing", render |-> "composing"]

StatusWritePcs ==
  {"setFetching", "setGenerating", "setSynthesizing", "setSyncing", "setComposing", "setDone"}

\* what a status write stores, and which step sets completedAt
StatusWritesAreStamped ==
  /\ \A p \in Procs :
       (run[p].pc \in StatusWritePcs /\ run'[p].pc # run[p].pc) =>
          /\ RowOf(p)'.updatedAt = now
          /\ RowOf(p)'.updatedAt = run'[p].wroteAt
          /\ run[p].pc = "setDone" =>
                (RowOf(p)'.status = "done" /\ RowOf(p)'.completedAt)
  /\ \A i \in DOMAIN episodes :
       episodes'[i].completedAt # episodes[i].completedAt =>
         \E p \in Procs : /\ run[p].pc = "setDone" /\ run[p].epId = episodes[i].id
                           /\ episodes'[i].status = "done"

\* the row holds the stage of collaborator c and the time of the run's
\* last status write when p invokes c
InvokedUnderItsStage(p, c) ==
  /\ RowOf(p).status = StageOfCollaborator[c]
  /\ RowOf(p).updatedAt = run[p].wroteAt

C21_ImagesIssuedWithAudio ==
  [][\A p \in Procs :
       ("image" \in run'[p].invoked /\ "image" \notin run[p].invoked) =>
          "audio" \notin run[p].invoked]_vars

\* C22: when the audio synthesis or the image generation of a run fails,
\* the row has the audioPath and durationSecs it had before the stage; for
\* a run that created its row, none.
C22_FailedSynthesisPersistsNothing ==
  \A p \in Procs :
    (/\ run[p].pc = "failed" /\ run[p].cause \in {"audio", "image"}
     /\ ~run[p].resumed)
    => (RowOf(p).audioPath = NoFile /\ RowOf(p).durationSecs = NoFile)

\* C29: whenever a run hands a timeline to renderVideo, the image phase of
\* that run has written the file of every segment: the run generated
\* images, and graphic-01 .. graphic-k exist for its k >= 1 cues.
C29_TimelineImagesWrittenByRun ==
  \A p \in Procs :
    run[p].pc = "renderVideo" =>
      /\ "image" \in run[p].invoked
      /\ parseGraphicCues(run[p].script) >= 1
      /\ imgFiles[run[p].date] >= parseGraphicCues(run[p].script)

FreshSuccess(f) == f.pc = "returned" /\ f.result.success /\ ~f.result.usedFallback

\* C23: a call makes at most 3 attempts; an attempt makes the call return
\* fresh data only when both the discussion and the forecast were fetched,
\* and otherwise counts as failed; after a return nothing follows but a new
\* call; and the snapshot store is read for fallback once, after the third
\* failed attempt.
C23_AtMostThreeAttempts ==
  [][/\ fetch'.attempt <= 3 /\ fetch'.failures <= 3
     /\ (fetch.pc = "attempt" /\ fetch'.pc # "attempt") =>
          IF fetch'.docs.afd /\ fetch'.docs.forecast
            THEN FreshSuccess(fetch') /\ fetch'.failures = fetch.failures
                 /\ fetch'.attempt = fetch.attempt
            ELSE /\ fetch'.failures = fetch.failures + 1
                 /\ fetch'.pc = IF fetch.attempt < 3 THEN "sleep" ELSE "fallback"
     /\ FreshSuccess(fetch') => fetch'.failures = fetch'.attempt - 1
     /\ (fetch.pc = "returned" /\ fetch' # fetch) =>
          (fetch'.calls = fetch.calls + 1 /\ fetch'.attempt = 1 /\ fetch'.failures = 0)
     /\ fetch'.lookups > fetch.lookups =>
          /\ fetch.lookups = 0 /\ fetch'.lookups = 1
          /\ fetch.failures = 3 /\ fetch.attempt = 3]_vars

\* the third attempt fetched both documents after two failures
C23_Witness ==
  /\ FreshSuccess(fetch) /\ fetch.attempt = 3 /\ fetch.failures = 2
  /\ fetch.docs.afd /\ fetch.docs.forecast /\ fetch.lookups = 0

\* C24: the waits of a call are 1000 ms after the first failed attempt and
\* 2000 ms after the second, and none after the third: the call sleeps only
\* after failure 1 or 2 and the fallback lookup follows two waits.
C24_BackoffDoubles ==
  /\ fetch.delays = SubSeq(<<1000, 2000>>, 1, Min({fetch.failures, 2}))
  /\ fetch.pc = "sleep" => fetch.failures \in {1, 2}
  /\ fetch.lookups > 0 => fetch.delays = <<1000, 2000>>

\* three attempts failed and the fallback lookup ran after two waits
C24_Witness ==
  /\ fetch.pc = "returned" /\ fetch.failures = 3 /\ fetch.lookups = 1
  /\ fetch.delays = <<1000, 2000>>

\* C27: the snapshot table only ever grows by one row at its end, in the
\* step in which an attempt succeeds; a call that returns has appended one
\* snapshot when it fetched fresh data and the store took the write, and
\* none when the write failed, when it fell back or when it failed.
C27_SnapshotsAppendOnly ==
  [][/\ snapshots' # snapshots =>
          /\ Len(snapshots') = Len(snapshots) + 1
          /\ SubSeq(snapshots', 1, Len(snapshots)) = snapshots
          /\ snapshots'[Len(snapshots')].episodeId = fetch.epId
          /\ fetch.pc = "attempt" /\ FreshSuccess(fetch')
     /\ (fetch'.pc = "returned" /\ fetch.pc # "returned") =>
          Len(snapshots') - fetch'.base =
            IF FreshSuccess(fetch') /\ ~fetch'.saveFailed THEN 1 ELSE 0]_vars

\* the second call stored its snapshot behind the one of the first
C27_Witness ==
  /\ fetch.calls = 2 /\ FreshSuccess(fetch) /\ ~fetch.saveFailed
  /\ fetch.base = 1 /\ Len(snapshots) = 2

RECURSIVE UsesBeyondFirst(_)
UsesBeyondFirst(rows) ==
  IF rows = <<>> THEN 0 ELSE (Head(rows).useCount - 1) + UsesBeyondFirst(Tail(rows))

\* C25: a call whose lookup returns a row with its file on disk is a hit;
\* a hit adds exactly 1 to the useCount of that row, sets its lastUsedAt
\* and changes nothing else in the table; any other call leaves every
\* existing row as it was and a row is created with useCount 1; so the
\* uses counted beyond the first add up to the number of hits.
C25_HitCountsOneUse ==
  [][ImageCall =>
       /\ (img'.last.matched # 0
            /\ img.disk[imageCache[img'.last.matched].imagePath] # NoImage)
           => img'.last.cached
       /\ IF img'.last.cached
            THEN LET r == img'.last.row IN
                 /\ r = img'.last.matched
                 /\ imageCache' = [imageCache EXCEPT
                                     ![r].useCount = imageCache[r].useCount + 1,
                                     ![r].lastUsedAt = img'.calls]
            ELSE /\ SubSeq(imageCache', 1, Len(imageCache)) = imageCache
                 /\ Len(imageCache') > Len(imageCache) =>
                       imageCache'[Len(imageCache')].useCount = 1
       /\ UsesBeyondFirst(imageCache') = img'.calls - img'.generated]_vars

\* a row was created by the first call and hit by the second and the third
C25_Witness ==
  /\ img.last.cached /\ img.calls = 3
  /\ imageCache[img.last.row].useCount = 3
  /\ imageCache[img.last.row].lastUsedAt = 3

\* C28: when a call reports cached = true, the file it returns holds an
\* image generated for the prompt, image type and style version of the
\* call.
C28_HitReturnsImageOfItsKey ==
  img.last.cached =>
    /\ img.last.content.prompt = img.last.prompt
    /\ img.last.content.imageType = img.last.imageType
    /\ img.last.content.styleVersion = img.last.styleVersion

RECURSIVE SumOf(_)
SumOf(seq) == IF seq = <<>> THEN 0 ELSE Head(seq) + SumOf(Tail(seq))

HintOrDefault(cues) == [i \in 1..Len(cues) |-> IF cues[i] = 0 THEN 5 ELSE cues[i]]

\* round(seconds * (audio / sum) * fps) for the i-th of the given seconds
ScaledFrames(seconds, i) ==
  MathRound(seconds[i] * timeline.audio * timeline.fps, SumOf(seconds) * AudioDen)

\* C26 as stated: for a non-empty cue list, the length of each segment
\* before clamping is round(cue.duration * scaleFactor * fps), scaleFactor
\* being audioDuration over the sum of the hints as given (checked where
\* that sum is not 0).
C26_FramesFromGivenHints ==
  (timeline.pc = "built" /\ timeline.cues # <<>> /\ SumOf(timeline.cues) > 0) =>
    \A i \in 1..Len(timeline.cues) :
      timeline.frames[i] = ScaledFrames(timeline.cues, i)

\* C26 amended: the same with every hint of 0 counted as 5 seconds, in the
\* cue's own duration and in the sum.
C26_FramesFromHintsOrDefault ==
  (timeline.pc = "built" /\ timeline.cues # <<>>) =>
    \A i \in 1..Len(timeline.cues) :
      timeline.frames[i] = ScaledFrames(HintOrDefault(timeline.cues), i)

\* a cue without a hint beside a cue of 5 seconds: each gets half of the
\* 60 frames of 2 seconds at 30 frames per second
C26_Witness ==
  /\ timeline.pc = "built" /\ timeline.cues = <<0, 5>>
  /\ timeline.audio = 2 * AudioDen /\ timeline.fps = 30
  /\ timeline.frames = <<30, 30>>

====
